---- MODULE Spec2Model ----
(***************************************************************************)
(* The crawl-frontier and item-catalog datastore of src/db/mysql.go       *)
(* (SQLDatastore): the two tables `nodes` and `items`, and one action per  *)
(* method of the datastore.  A method that writes runs its statements on   *)
(* a transaction-local copy of the table; the copy reaches the persisted   *)
(* table only when tx.Commit() succeeds.                                   *)
(***************************************************************************)
EXTENDS Integers, Sequences, FiniteSets, TLC

\* Largest reading of NOW() the model lets the clock reach.
MaxClock == 3
\* Longest batch (node IDs or items) handed to one call.
MaxBatch == 2
\* '2000-01-01 00:00:00', the lastUpdated of a row inserted by AddUninitializedNodes.
Sentinel == 0

NodeIDs == {"A", "B"}
Hashes == {"h1", "h2"}
Workers == {"w1", "w2"}

VARIABLES
    nodes,    \* table nodes: a function from the ids present to their rows
    items,    \* table items: a function from the hashes present to their rows
    clock,    \* the database server's NOW()
    last,     \* the most recent call of the datastore and what it returned
    wpc,      \* crawler workers: where each one is in its loop
    got,      \* crawler workers: the node each one holds from GetNextNode
    ord,      \* history: node ids in the order of their latest touch or save
    catalog   \* history: per owner, the batch of its latest committed AddItemsForNode

vars == <<nodes, items, clock, last, wpc, got, ord, catalog>>

-----------------------------------------------------------------------------
(* SQL values: a column holds NULL or one value. *)

Null == <<>>
Val(v) == <<v>>

\* database/sql hands a Go bool to a TINYINT(1) column as 1 or 0.
Tiny(b) == IF b THEN 1 ELSE 0

\* Finite sequences over S of length at most n.
SeqsUpTo(S, n) == UNION {[1..k -> S] : k \in 0..n}

-----------------------------------------------------------------------------
(* crawling.Node, as the datastore reads and fills it.  Listed and Banned   *)
(* are fields of the data model's profile; no statement of the datastore   *)
(* reads them.  AverageRating is in hundredths, as DECIMAL(3, 2) keeps it. *)

ProfileX ==
    [Name |-> "X", Handle |-> "@x", Location |-> "north", Nsfw |-> FALSE,
     Vendor |-> TRUE, Moderator |-> FALSE, About |-> "about x",
     ShortDescription |-> "short x",
     Stats |-> [FollowerCount |-> 5, FollowingCount |-> 1, ListingCount |-> 2,
                PostCount |-> 3, RatingCount |-> 4, AverageRating |-> 450],
     Listed |-> TRUE, Banned |-> FALSE]

ProfileY ==
    [Name |-> "Y", Handle |-> "@y", Location |-> "south", Nsfw |-> TRUE,
     Vendor |-> FALSE, Moderator |-> TRUE, About |-> "about y",
     ShortDescription |-> "short y",
     Stats |-> [FollowerCount |-> 7, FollowingCount |-> 8, ListingCount |-> 9,
                PostCount |-> 6, RatingCount |-> 11, AverageRating |-> 125],
     Listed |-> FALSE, Banned |-> TRUE]

Profiles == {ProfileX, ProfileY}

\* The zero value of the Go struct: what crawling.Node{} holds before Scan.
ZeroProfile ==
    [Name |-> "", Handle |-> "", Location |-> "", Nsfw |-> FALSE,
     Vendor |-> FALSE, Moderator |-> FALSE, About |-> "",
     ShortDescription |-> "",
     Stats |-> [FollowerCount |-> 0, FollowingCount |-> 0, ListingCount |-> 0,
                PostCount |-> 0, RatingCount |-> 0, AverageRating |-> 0],
     Listed |-> FALSE, Banned |-> FALSE]

NodeInputs == [ID : NodeIDs, Profile : Profiles]

\* The node a caller passes when only its ID matters.
BareNode(id) == [ID |-> id, Profile |-> ZeroProfile]

-----------------------------------------------------------------------------
(* Table nodes (CREATE TABLE nodes, primary key id). *)

\* INSERT INTO nodes (id, lastUpdated): the other columns take their defaults,
\* NULL, and 0 for listed and banned.
UninitRow(t) ==
    [lastUpdated |-> Val(t),
     name |-> Null, handle |-> Null, location |-> Null,
     nsfw |-> Null, vendor |-> Null, moderator |-> Null,
     about |-> Null, shortDescription |-> Null,
     followerCount |-> Null, followingCount |-> Null, listingCount |-> Null,
     postCount |-> Null, ratingCount |-> Null, averageRating |-> Null,
     listed |-> Val(0), banned |-> Val(0)]

\* tbl with the row of key k set to r (inserted when absent).
Put(tbl, k, r) == [x \in DOMAIN tbl \cup {k} |-> IF x = k THEN r ELSE tbl[x]]

\* REPLACE INTO nodes (id, lastUpdated) VALUES (?, NOW()): the touch that
\* rewrites the whole row.
TouchReplaceStmt(tbl, id, now) == Put(tbl, id, UninitRow(now))

\* UPDATE nodes SET lastUpdated=NOW() WHERE id=?: the touch that inserts
\* nothing for an id the table does not hold.
TouchUpdateStmt(tbl, id, now) ==
    IF id \in DOMAIN tbl THEN [tbl EXCEPT ![id].lastUpdated = Val(now)] ELSE tbl

\* INSERT INTO nodes (id, lastUpdated) VALUES (?, NOW())
\*   ON DUPLICATE KEY UPDATE lastUpdated=NOW()
TouchStmt(tbl, id, now) ==
    IF id \in DOMAIN tbl
        THEN [tbl EXCEPT ![id].lastUpdated = Val(now)]
        ELSE Put(tbl, id, UninitRow(now))

\* SaveNode's column list with the six stats left out.
ProfileColumnsNoStats(row, p) ==
    [row EXCEPT
        !.name = Val(p.Name),
        !.handle = Val(p.Handle),
        !.location = Val(p.Location),
        !.nsfw = Val(Tiny(p.Nsfw)),
        !.vendor = Val(Tiny(p.Vendor)),
        !.moderator = Val(Tiny(p.Moderator)),
        !.about = Val(p.About),
        !.shortDescription = Val(p.ShortDescription)]

\* The fourteen profile columns SaveNode's statement names, from n.Profile.
ProfileColumns(row, p) ==
    [row EXCEPT
        !.name = Val(p.Name),
        !.handle = Val(p.Handle),
        !.location = Val(p.Location),
        !.nsfw = Val(Tiny(p.Nsfw)),
        !.vendor = Val(Tiny(p.Vendor)),
        !.moderator = Val(Tiny(p.Moderator)),
        !.about = Val(p.About),
        !.shortDescription = Val(p.ShortDescription),
        !.followerCount = Val(p.Stats.FollowerCount),
        !.followingCount = Val(p.Stats.FollowingCount),
        !.listingCount = Val(p.Stats.ListingCount),
        !.postCount = Val(p.Stats.PostCount),
        !.ratingCount = Val(p.Stats.RatingCount),
        !.averageRating = Val(p.Stats.AverageRating)]

\* INSERT INTO nodes (id, lastUpdated, name, ..., averageRating)
\*   VALUES (?, NOW(), ...) ON DUPLICATE KEY UPDATE lastUpdated=NOW(), name=?, ...
SaveStmt(tbl, n, now) ==
    IF n.ID \in DOMAIN tbl
        THEN [tbl EXCEPT ![n.ID] =
                 ProfileColumns([@ EXCEPT !.lastUpdated = Val(now)], n.Profile)]
        ELSE Put(tbl, n.ID, ProfileColumns(UninitRow(now), n.Profile))

\* INSERT ... ON DUPLICATE KEY UPDATE lastUpdated='2000-01-01 00:00:00': the
\* enqueue that resets a known node.
InsertResetStmt(tbl, id) ==
    IF id \in DOMAIN tbl
        THEN [tbl EXCEPT ![id].lastUpdated = Val(Sentinel)]
        ELSE Put(tbl, id, UninitRow(Sentinel))

\* INSERT IGNORE with a far-future literal in place of the far-past one.
InsertIgnoreLateStmt(tbl, id) ==
    IF id \in DOMAIN tbl THEN tbl ELSE Put(tbl, id, UninitRow(MaxClock + 1))

\* INSERT IGNORE INTO nodes (id, lastUpdated) VALUES (?, '2000-01-01 00:00:00')
InsertIgnoreStmt(tbl, id) ==
    IF id \in DOMAIN tbl THEN tbl ELSE Put(tbl, id, UninitRow(Sentinel))

\* ORDER BY lastUpdated DESC LIMIT 1
LastByLastUpdated(tbl) ==
    {id \in DOMAIN tbl :
        \A o \in DOMAIN tbl : tbl[id].lastUpdated[1] >= tbl[o].lastUpdated[1]}

\* The rows SELECT ... ORDER BY lastUpdated ASC LIMIT 1 may return: the order
\* among rows of equal lastUpdated is the server's choice.
FirstByLastUpdated(tbl) ==
    {id \in DOMAIN tbl :
        \A o \in DOMAIN tbl : tbl[id].lastUpdated[1] <= tbl[o].lastUpdated[1]}

\* r.Scan(&node.ID, &node.LastCrawled) into a fresh crawling.Node{}.
ScanNode(tbl, id) ==
    [ID |-> id, LastCrawled |-> tbl[id].lastUpdated[1], Profile |-> ZeroProfile]

-----------------------------------------------------------------------------
(* Transactions.  A call fails at one step or at none. *)

NoFail == [step |-> "none", i |-> 0]

\* The places a call with n statements in its loop can fail; statement 0 is
\* the one before the loop, when the method has one.
FailPoints(first, n) ==
    {NoFail, [step |-> "begin", i |-> 0], [step |-> "commit", i |-> 0]}
        \cup {[step |-> s, i |-> k] : s \in {"prepare", "exec"}, k \in first..n}

\* How many statements of the call ran before it returned.
Executed(fail, first, n) ==
    IF fail.step \in {"none", "commit"} THEN n
    ELSE IF fail.step = "begin" THEN first - 1
    ELSE fail.i - 1

\* No transaction: every statement is persisted as it runs.
TxOutcomeAutocommit(tbl, buf, fail) == buf

\* What is persisted when the method returns: the transaction's copy after
\* a successful tx.Commit(), and the table as it was on every error return
\* (the transaction is never committed).
TxOutcome(tbl, buf, fail) == IF fail.step = "none" THEN buf ELSE tbl

\* What the method leaves of the transaction it began, when it returns.
\* No transaction when Begin failed.  tx.Commit() ends the transaction
\* whatever it returns: database/sql closes the Tx, and a commit the server
\* refuses is rolled back.  On a failed Prepare or Exec the method returns
\* err and calls neither Commit nor Rollback: the transaction stays open on
\* its connection, unless the method began it with a context that its
\* deferred cancel() ends (ctxCancelled), which rolls it back.
TxOnReturn(fail, ctxCancelled) ==
    IF fail.step = "begin" THEN "none"
    ELSE IF fail.step = "none" THEN "committed"
    ELSE IF fail.step = "commit" \/ ctxCancelled THEN "rolled back"
    ELSE "open"

-----------------------------------------------------------------------------
(* The record of a call; tx is the state in which the call left the       *)
(* transaction it began ("none" for a method that begins none).            *)

NoBatch == <<>>
NoRet == <<>>

Call(op, n, batch, fail, ret, tx) ==
    [op |-> op, node |-> n, batch |-> batch, err |-> fail.step, ret |-> ret,
     tx |-> tx]

NoCall == Call("none", BareNode(""), NoBatch, NoFail, NoRet, "none")

Ok(c, op) == c.op = op /\ c.err = "none"

-----------------------------------------------------------------------------
(* The methods of SQLDatastore that work on table nodes. *)

Init ==
    /\ nodes = [id \in {} |-> UninitRow(Sentinel)]
    /\ items = [h \in {} |-> Null]
    /\ clock = Sentinel + 1
    /\ last = NoCall
    /\ wpc = [w \in Workers |-> "idle"]
    /\ got = [w \in Workers |-> NoRet]
    /\ ord = <<>>
    /\ catalog = [o \in NodeIDs |-> NoRet]

\* The server's clock moves on between two calls.
Tick ==
    /\ clock < MaxClock
    /\ clock' = clock + 1
    /\ last' = NoCall
    /\ UNCHANGED <<nodes, items>>

ReadFails == {NoFail, [step |-> "query", i |-> 0]}

\* What GetNextNode can return on table tbl.
NextNodeResults(tbl, fail) ==
    IF fail.step # "none"
        THEN {Call("GetNextNode", BareNode(""), NoBatch, fail, NoRet, "none")}
    ELSE IF DOMAIN tbl = {}
        THEN {Call("GetNextNode", BareNode(""), NoBatch,
                   [step |-> "ErrNoRows", i |-> 0], NoRet, "none")}
    ELSE {Call("GetNextNode", BareNode(""), NoBatch, NoFail,
               Val(ScanNode(tbl, id)), "none") :
             id \in FirstByLastUpdated(tbl)}

\* GetNextNode as a claim: the row it returns is touched in the same step.
GetNextNodeClaiming(fail) ==
    /\ \E c \in NextNodeResults(nodes, fail) :
           /\ last' = c
           /\ nodes' = IF c.err = "none"
                           THEN TouchStmt(nodes, c.ret[1].ID, clock) ELSE nodes
    /\ UNCHANGED <<items, clock>>

GetNextNode(fail) ==
    /\ \E c \in NextNodeResults(nodes, fail) : last' = c
    /\ UNCHANGED <<nodes, items, clock>>

\* What GetNode(nodeID) returns on table tbl.
GetNodeResult(tbl, nodeID, fail) ==
    IF fail.step # "none"
        THEN Call("GetNode", BareNode(nodeID), NoBatch, fail, NoRet, "none")
    ELSE IF nodeID \notin DOMAIN tbl
        THEN Call("GetNode", BareNode(nodeID), NoBatch,
                  [step |-> "ErrNoRows", i |-> 0], NoRet, "none")
    ELSE Call("GetNode", BareNode(nodeID), NoBatch, NoFail,
              Val(ScanNode(tbl, nodeID)), "none")

GetNode(nodeID, fail) ==
    /\ last' = GetNodeResult(nodes, nodeID, fail)
    /\ UNCHANGED <<nodes, items, clock>>

SaveNodeUninitialized(n, fail) ==
    /\ nodes' = TxOutcome(nodes,
                          IF Executed(fail, 1, 1) = 1
                              THEN TouchStmt(nodes, n.ID, clock) ELSE nodes,
                          fail)
    /\ last' = Call("SaveNodeUninitialized", n, NoBatch, fail, NoRet,
                  TxOnReturn(fail, FALSE))
    /\ UNCHANGED <<items, clock>>

SaveNode(n, fail) ==
    /\ nodes' = TxOutcome(nodes,
                          IF Executed(fail, 1, 1) = 1
                              THEN SaveStmt(nodes, n, clock) ELSE nodes,
                          fail)
    /\ last' = Call("SaveNode", n, NoBatch, fail, NoRet, TxOnReturn(fail, FALSE))
    /\ UNCHANGED <<items, clock>>

\* The table after the first k passes of AddUninitializedNodes' loop.
RECURSIVE InsertIgnoreAll(_, _, _)
InsertIgnoreAll(tbl, ns, k) ==
    IF k <= 0 THEN tbl
    ELSE InsertIgnoreStmt(InsertIgnoreAll(tbl, ns, k - 1), ns[k].ID)

AddUninitializedNodes(ns, fail) ==
    /\ nodes' = TxOutcome(nodes,
                          InsertIgnoreAll(nodes, ns, Executed(fail, 1, Len(ns))),
                          fail)
    /\ last' = Call("AddUninitializedNodes", BareNode(""), ns, fail, NoRet,
                  TxOnReturn(fail, FALSE))
    /\ UNCHANGED <<items, clock>>

-----------------------------------------------------------------------------
(* crawling.Item and table items (CREATE TABLE items, primary key hash). *)

\* Texts that are joined are sequences of characters.
Comma == <<",">>

ItemOne(h) ==
    [Hash |-> h, Slug |-> "slug-1", Title |-> "title 1", Description |-> "text 1",
     Thumbnail |-> [Tiny |-> <<"t">>, Small |-> <<"s">>, Medium |-> <<"m">>],
     Language |-> "en", Price |-> [Amount |-> 100, CurrencyCode |-> "USD"],
     Categories |-> << <<"a">>, <<"b">> >>,
     NSFW |-> FALSE, ContractType |-> "PHYSICAL_GOOD", AverageRating |-> 450]

ItemTwo(h) ==
    [Hash |-> h, Slug |-> "slug-2", Title |-> "title 2", Description |-> "text 2",
     Thumbnail |-> [Tiny |-> <<>>, Small |-> <<>>, Medium |-> <<>>],
     Language |-> "de", Price |-> [Amount |-> 250, CurrencyCode |-> "EUR"],
     Categories |-> << <<"a", ",", "b">> >>,
     NSFW |-> TRUE, ContractType |-> "SERVICE", AverageRating |-> 300]

ItemInputs == {ItemOne("h1"), ItemTwo("h1"), ItemOne("h2")}

\* strings.Join(elems, sep)
RECURSIVE Join(_, _)
Join(elems, sep) ==
    IF Len(elems) = 0 THEN <<>>
    ELSE IF Len(elems) = 1 THEN elems[1]
    ELSE elems[1] \o sep \o Join(Tail(elems), sep)

\* strings.Split(s, sep) for a separator of one character: the pieces of s
\* between the separators; a text without separator, the empty text
\* included, is one piece.
RECURSIVE Split(_, _)
Split(s, c) ==
    IF \A i \in 1..Len(s) : s[i] # c THEN <<s>>
    ELSE LET i == CHOOSE k \in 1..Len(s) : s[k] = c /\ \A j \in 1..(k - 1) : s[j] # c
         IN  <<SubSeq(s, 1, i - 1)>> \o Split(SubSeq(s, i + 1, Len(s)), c)

\* Thumbnail.Tiny + "," + Thumbnail.Small + "," + Thumbnail.Medium
ThumbnailField(th) == th.Tiny \o Comma \o th.Small \o Comma \o th.Medium

\* The VALUES list of the INSERT INTO items statement.
ItemRow(owner, it) ==
    [owner |-> Val(owner),
     slug |-> Val(it.Slug),
     title |-> Val(it.Title),
     tags |-> Val(""),
     description |-> Val(it.Description),
     thumbnail |-> Val(ThumbnailField(it.Thumbnail)),
     language |-> Val(it.Language),
     priceAmount |-> Val(it.Price.Amount),
     priceCurrency |-> Val(it.Price.CurrencyCode),
     categories |-> Val(Join(it.Categories, Comma)),
     nsfw |-> Val(Tiny(it.NSFW)),
     contractType |-> Val(it.ContractType),
     rating |-> Val(it.AverageRating)]

\* DELETE FROM items WHERE owner = ?
DeleteOwnerStmt(tbl, owner) ==
    [h \in {x \in DOMAIN tbl : tbl[x].owner # Val(owner)} |-> tbl[h]]

\* The upsert with owner=? in its update list: the row moves to the caller.
UpsertItemOwnerStmt(tbl, owner, it) == Put(tbl, it.Hash, ItemRow(owner, it))

\* INSERT INTO items (owner, hash, slug, ...) VALUES (...)
\*   ON DUPLICATE KEY UPDATE slug=?, title=?, ..., rating=?
\* The update list does not name owner.
UpsertItemStmt(tbl, owner, it) ==
    IF it.Hash \in DOMAIN tbl
        THEN [tbl EXCEPT ![it.Hash] = [ItemRow(owner, it) EXCEPT !.owner = tbl[it.Hash].owner]]
        ELSE Put(tbl, it.Hash, ItemRow(owner, it))

\* The table after the first k passes of AddItemsForNode's loop.
RECURSIVE UpsertItems(_, _, _, _)
UpsertItems(tbl, owner, its, k) ==
    IF k <= 0 THEN tbl
    ELSE UpsertItemStmt(UpsertItems(tbl, owner, its, k - 1), owner, its[k])

\* The method with a return before its DELETE when the batch is empty.
CatalogBufferSkipEmpty(tbl, owner, its, k) ==
    IF k < 0 \/ Len(its) = 0 THEN tbl
    ELSE UpsertItems(DeleteOwnerStmt(tbl, owner), owner, its, k)

\* The transaction's copy of items after the DELETE and k passes of the
\* loop; k < 0 when not even the DELETE ran.
CatalogBuffer(tbl, owner, its, k) ==
    IF k < 0 THEN tbl ELSE UpsertItems(DeleteOwnerStmt(tbl, owner), owner, its, k)

AddItemsForNode(owner, its, fail) ==
    /\ items' = TxOutcome(items,
                          CatalogBuffer(items, owner, its, Executed(fail, 0, Len(its))),
                          fail)
    /\ last' = Call("AddItemsForNode", BareNode(owner), its, fail, NoRet,
                  TxOnReturn(fail, TRUE))
    /\ UNCHANGED <<nodes, clock>>

-----------------------------------------------------------------------------
(* History kept beside the store, for the properties that speak of earlier *)
(* calls.                                                                  *)

Without(seq, x) == SelectSeq(seq, LAMBDA y : y # x)

\* ord after the call c: a committed touch or save moves its node to the end.
OrdAfter(o, c) ==
    IF c.op \in {"SaveNodeUninitialized", "SaveNode"} /\ c.err = "none"
        THEN Append(Without(o, c.node.ID), c.node.ID)
        ELSE o

\* The rows a batch reports, by hash: a later item of the batch with the same
\* hash replaces an earlier one.
RECURSIVE Reported(_, _, _)
Reported(owner, its, k) ==
    IF k <= 0 THEN [h \in {} |-> Null]
    ELSE Put(Reported(owner, its, k - 1), its[k].Hash, ItemRow(owner, its[k]))

\* catalog after the call c: a committed AddItemsForNode replaces its owner's entry.
CatalogAfter(cat, c) ==
    IF c.op = "AddItemsForNode" /\ c.err = "none"
        THEN [cat EXCEPT ![c.node.ID] = Val(Reported(c.node.ID, c.batch, Len(c.batch)))]
        ELSE cat

-----------------------------------------------------------------------------
(* SpecFrontier: table nodes under one caller, every method, any arguments. *)

NodeBatches == SeqsUpTo({BareNode(id) : id \in NodeIDs}, MaxBatch)

FrontierTick == Tick /\ UNCHANGED <<wpc, got, ord, catalog>>

FrontierGetNextNode ==
    /\ \E fail \in ReadFails : GetNextNode(fail)
    /\ UNCHANGED <<wpc, got, ord, catalog>>

FrontierGetNode ==
    /\ \E id \in NodeIDs, fail \in ReadFails \cup {[step |-> "prepare", i |-> 1]} :
           GetNode(id, fail)
    /\ UNCHANGED <<wpc, got, ord, catalog>>

FrontierSaveNodeUninitialized ==
    /\ \E id \in NodeIDs, fail \in FailPoints(1, 1) :
           SaveNodeUninitialized(BareNode(id), fail)
    /\ ord' = OrdAfter(ord, last')
    /\ UNCHANGED <<wpc, got, catalog>>

FrontierSaveNode ==
    /\ \E n \in NodeInputs, fail \in FailPoints(1, 1) : SaveNode(n, fail)
    /\ ord' = OrdAfter(ord, last')
    /\ UNCHANGED <<wpc, got, catalog>>

FrontierAddUninitializedNodes ==
    /\ \E ns \in NodeBatches : \E fail \in FailPoints(1, Len(ns)) :
           AddUninitializedNodes(ns, fail)
    /\ UNCHANGED <<wpc, got, ord, catalog>>

NextFrontier ==
    \/ FrontierTick
    \/ FrontierGetNextNode
    \/ FrontierGetNode
    \/ FrontierSaveNodeUninitialized
    \/ FrontierSaveNode
    \/ FrontierAddUninitializedNodes

SpecFrontier == Init /\ [][NextFrontier]_vars

-----------------------------------------------------------------------------
(* SpecCatalog: table items under one caller. *)

ItemBatches == SeqsUpTo(ItemInputs, MaxBatch)

CatalogAddItemsForNode ==
    /\ \E owner \in NodeIDs, its \in ItemBatches :
           \E fail \in FailPoints(0, Len(its)) : AddItemsForNode(owner, its, fail)
    /\ UNCHANGED <<wpc, got, ord, catalog>>

NextCatalog == CatalogAddItemsForNode

SpecCatalog == Init /\ [][NextCatalog]_vars

\* The same, with the history of what each owner last reported.
HistoryAddItemsForNode ==
    /\ \E owner \in NodeIDs, its \in ItemBatches :
           \E fail \in FailPoints(0, Len(its)) : AddItemsForNode(owner, its, fail)
    /\ catalog' = CatalogAfter(catalog, last')
    /\ UNCHANGED <<wpc, got, ord>>

NextCatalogHistory == HistoryAddItemsForNode

SpecCatalogHistory == Init /\ [][NextCatalogHistory]_vars

-----------------------------------------------------------------------------
(* Spec: both tables under one caller, every method that writes; the      *)
(* catalog written is that of one owner.                                   *)

WriteNodeUninitialized ==
    /\ \E id \in NodeIDs, fail \in FailPoints(1, 1) :
           SaveNodeUninitialized(BareNode(id), fail)
    /\ UNCHANGED <<wpc, got, ord, catalog>>

WriteNode ==
    /\ \E id \in NodeIDs, fail \in FailPoints(1, 1) :
           SaveNode([ID |-> id, Profile |-> ProfileX], fail)
    /\ UNCHANGED <<wpc, got, ord, catalog>>

WriteUninitializedNodes ==
    /\ \E ns \in NodeBatches : \E fail \in FailPoints(1, Len(ns)) :
           AddUninitializedNodes(ns, fail)
    /\ UNCHANGED <<wpc, got, ord, catalog>>

WriteItemsForNode ==
    /\ \E its \in SeqsUpTo({ItemOne(h) : h \in Hashes}, MaxBatch) :
           \E fail \in FailPoints(0, Len(its)) : AddItemsForNode("A", its, fail)
    /\ UNCHANGED <<wpc, got, ord, catalog>>

Next ==
    \/ WriteNodeUninitialized
    \/ WriteNode
    \/ WriteUninitializedNodes
    \/ WriteItemsForNode

Spec == Init /\ [][Next]_vars

-----------------------------------------------------------------------------
(* SpecWorkers: two crawler workers, each repeating GetNextNode and then a  *)
(* touch or a save of the node it got, while nodes are discovered.          *)

WorkerFails == {NoFail, [step |-> "exec", i |-> 1]}

WorkerSelect(w) ==
    /\ wpc[w] = "idle"
    /\ \E fail \in ReadFails : GetNextNode(fail)
    /\ got' = [got EXCEPT ![w] = last'.ret]
    /\ wpc' = [wpc EXCEPT ![w] = IF last'.err = "none" THEN "crawl" ELSE "idle"]
    /\ UNCHANGED <<ord, catalog>>

WorkerTouch(w) ==
    /\ wpc[w] = "crawl"
    /\ \E fail \in WorkerFails : SaveNodeUninitialized(BareNode(got[w][1].ID), fail)
    /\ got' = [got EXCEPT ![w] = NoRet]
    /\ wpc' = [wpc EXCEPT ![w] = "idle"]
    /\ ord' = OrdAfter(ord, last')
    /\ UNCHANGED catalog

WorkerSave(w) ==
    /\ wpc[w] = "crawl"
    /\ \E fail \in WorkerFails :
           SaveNode([ID |-> got[w][1].ID, Profile |-> ProfileX], fail)
    /\ got' = [got EXCEPT ![w] = NoRet]
    /\ wpc' = [wpc EXCEPT ![w] = "idle"]
    /\ ord' = OrdAfter(ord, last')
    /\ UNCHANGED catalog

WorkerDiscover ==
    /\ \E ns \in NodeBatches : AddUninitializedNodes(ns, NoFail)
    /\ UNCHANGED <<wpc, got, ord, catalog>>

WorkerTick == Tick /\ UNCHANGED <<wpc, got, ord, catalog>>

NextWorkers ==
    \/ \E w \in Workers : WorkerSelect(w)
    \/ \E w \in Workers : WorkerTouch(w)
    \/ \E w \in Workers : WorkerSave(w)
    \/ WorkerDiscover
    \/ WorkerTick

SpecWorkers == Init /\ [][NextWorkers]_vars

-----------------------------------------------------------------------------
(* SpecTimeline: every method that writes, in any order of calls, while   *)
(* the clock moves on.                                                     *)

\* A call that runs through, and one whose first Exec fails.
TimelineFails == {NoFail, [step |-> "exec", i |-> 1]}

TimelineTick == Tick /\ UNCHANGED <<wpc, got, ord, catalog>>

TimelineSaveNodeUninitialized ==
    /\ \E id \in NodeIDs, fail \in TimelineFails :
           SaveNodeUninitialized(BareNode(id), fail)
    /\ UNCHANGED <<wpc, got, ord, catalog>>

TimelineSaveNode ==
    /\ \E id \in NodeIDs, fail \in TimelineFails :
           SaveNode([ID |-> id, Profile |-> ProfileX], fail)
    /\ UNCHANGED <<wpc, got, ord, catalog>>

TimelineAddUninitializedNodes ==
    /\ \E ns \in NodeBatches : \E fail \in TimelineFails \cap FailPoints(1, Len(ns)) :
           AddUninitializedNodes(ns, fail)
    /\ UNCHANGED <<wpc, got, ord, catalog>>

TimelineAddItemsForNode ==
    /\ \E owner \in NodeIDs, its \in SeqsUpTo({ItemOne("h1")}, MaxBatch) :
           \E fail \in TimelineFails \cap FailPoints(0, Len(its)) :
               AddItemsForNode(owner, its, fail)
    /\ UNCHANGED <<wpc, got, ord, catalog>>

NextTimeline ==
    \/ TimelineTick
    \/ TimelineSaveNodeUninitialized
    \/ TimelineSaveNode
    \/ TimelineAddUninitializedNodes
    \/ TimelineAddItemsForNode

SpecTimeline == Init /\ [][NextTimeline]_vars

-----------------------------------------------------------------------------
(* SpecLoop: one crawler worker that forever repeats GetNextNode and then   *)
(* a touch or a save of the node it got, every call succeeding, while      *)
(* nodes are discovered.  The worker's steps are weakly fair; the clock is *)
(* free to stand still.                                                    *)

\* The one worker of the loop.
LoopWorker == "w1"

\* The readings later than the sentinel that rows of tbl carry.
CrawlTimes(tbl) ==
    {tbl[id].lastUpdated[1] : id \in {x \in DOMAIN tbl : tbl[x].lastUpdated[1] > Sentinel}}

\* The methods only compare timestamps, with one another and with NOW().
\* tbl with every timestamp later than the sentinel renamed to its rank
\* among them: order and equality of the rows are kept, the gaps are not.
Ranked(tbl) ==
    [id \in DOMAIN tbl |->
        IF tbl[id].lastUpdated[1] > Sentinel
            THEN [tbl[id] EXCEPT !.lastUpdated =
                     Val(Sentinel + Cardinality({t \in CrawlTimes(tbl) :
                                                    t <= tbl[id].lastUpdated[1]}))]
            ELSE tbl[id]]

\* The clock moves on.  At the largest reading of the model the timestamps
\* are renamed instead, and the clock reads one more than the latest row.
LoopTick ==
    /\ clock' = IF clock < MaxClock THEN clock + 1
                ELSE Sentinel + Cardinality(CrawlTimes(nodes)) + 1
    /\ nodes' = IF clock < MaxClock THEN nodes ELSE Ranked(nodes)
    /\ last' = NoCall
    /\ UNCHANGED <<items, wpc, got, ord, catalog>>

LoopSelect ==
    /\ wpc[LoopWorker] = "idle"
    /\ GetNextNode(NoFail)
    /\ got' = [got EXCEPT ![LoopWorker] = last'.ret]
    /\ wpc' = [wpc EXCEPT ![LoopWorker] = IF last'.err = "none" THEN "crawl" ELSE "idle"]
    /\ UNCHANGED <<ord, catalog>>

LoopTouch ==
    /\ wpc[LoopWorker] = "crawl"
    /\ SaveNodeUninitialized(BareNode(got[LoopWorker][1].ID), NoFail)
    /\ got' = [got EXCEPT ![LoopWorker] = NoRet]
    /\ wpc' = [wpc EXCEPT ![LoopWorker] = "idle"]
    /\ UNCHANGED <<ord, catalog>>

LoopSave ==
    /\ wpc[LoopWorker] = "crawl"
    /\ SaveNode([ID |-> got[LoopWorker][1].ID, Profile |-> ProfileX], NoFail)
    /\ got' = [got EXCEPT ![LoopWorker] = NoRet]
    /\ wpc' = [wpc EXCEPT ![LoopWorker] = "idle"]
    /\ UNCHANGED <<ord, catalog>>

LoopDiscover ==
    /\ \E ns \in NodeBatches : AddUninitializedNodes(ns, NoFail)
    /\ UNCHANGED <<wpc, got, ord, catalog>>

NextLoop ==
    \/ LoopSelect
    \/ LoopTouch
    \/ LoopSave
    \/ LoopDiscover
    \/ LoopTick

SpecLoop ==
    /\ Init
    /\ [][NextLoop]_vars
    /\ WF_vars(LoopSelect)
    /\ WF_vars(LoopTouch \/ LoopSave)

-----------------------------------------------------------------------------
(* SpecReplace: two callers replace the catalog of the same owner, their   *)
(* calls overlapping in time, while the other owner's catalog is written.  *)
(* The two transactions take effect one after the other, in either order:  *)
(* statements of different transactions are not interleaved.               *)

\* The owner both callers write, and the other one.
ReplaceOwner == "A"
OtherOwner == "B"

\* The other owner's catalog is written before the two calls.
ReplaceSeed ==
    /\ \A w \in Workers : wpc[w] = "idle"
    /\ \E its \in ItemBatches : AddItemsForNode(OtherOwner, its, NoFail)
    /\ UNCHANGED <<wpc, got, ord, catalog>>

\* Caller w calls AddItemsForNode(ReplaceOwner, its).
ReplaceCall(w) ==
    /\ wpc[w] = "idle"
    /\ \E its \in ItemBatches : got' = [got EXCEPT ![w] = Val([batch |-> its, err |-> ""])]
    /\ wpc' = [wpc EXCEPT ![w] = "call"]
    /\ UNCHANGED <<nodes, items, clock, last, ord, catalog>>

\* The call of w runs its transaction and returns.
ReplaceReturn(w) ==
    /\ wpc[w] = "call"
    /\ \E fail \in FailPoints(0, Len(got[w][1].batch)) :
           AddItemsForNode(ReplaceOwner, got[w][1].batch, fail)
    /\ got' = [got EXCEPT ![w] = Val([batch |-> got[w][1].batch, err |-> last'.err])]
    /\ wpc' = [wpc EXCEPT ![w] = "done"]
    /\ UNCHANGED <<ord, catalog>>

NextReplace ==
    \/ ReplaceSeed
    \/ \E w \in Workers : ReplaceCall(w)
    \/ \E w \in Workers : ReplaceReturn(w)

SpecReplace == Init /\ [][NextReplace]_vars

-----------------------------------------------------------------------------
(* Properties. *)

InSeq(seq, x) == \E i \in 1..Len(seq) : seq[i] = x
Pos(seq, x) == CHOOSE i \in 1..Len(seq) : seq[i] = x

\* The rows of items stored with owner o, by hash.
RowsOf(tbl, o) == [h \in {x \in DOMAIN tbl : tbl[x].owner = Val(o)} |-> tbl[h]]

\* The fourteen profile columns of row hold the values of profile p.
HoldsProfile(row, p) ==
    /\ row.name = Val(p.Name)
    /\ row.handle = Val(p.Handle)
    /\ row.location = Val(p.Location)
    /\ row.nsfw = Val(Tiny(p.Nsfw))
    /\ row.vendor = Val(Tiny(p.Vendor))
    /\ row.moderator = Val(Tiny(p.Moderator))
    /\ row.about = Val(p.About)
    /\ row.shortDescription = Val(p.ShortDescription)
    /\ row.followerCount = Val(p.Stats.FollowerCount)
    /\ row.followingCount = Val(p.Stats.FollowingCount)
    /\ row.listingCount = Val(p.Stats.ListingCount)
    /\ row.postCount = Val(p.Stats.PostCount)
    /\ row.ratingCount = Val(p.Stats.RatingCount)
    /\ row.averageRating = Val(p.Stats.AverageRating)

\* Two profiles agree on the fields SaveNode writes.
SameProfileFields(p, q) ==
    /\ p.Name = q.Name /\ p.Handle = q.Handle /\ p.Location = q.Location
    /\ p.Nsfw = q.Nsfw /\ p.Vendor = q.Vendor /\ p.Moderator = q.Moderator
    /\ p.About = q.About /\ p.ShortDescription = q.ShortDescription
    /\ p.Stats = q.Stats

\* C1: for every owner, the item rows stored with that owner are exactly the
\* items of that owner's most recent committed AddItemsForNode.
C1_FullReplacement ==
    \A o \in NodeIDs : catalog[o] # NoRet => RowsOf(items, o) = catalog[o][1]

\* C2: GetNextNode changes no row; when it succeeds the node it returns is a
\* row of the table and no row has a smaller lastUpdated; it fails with
\* ErrNoRows only on an empty table, and on an empty table it never succeeds.
C2_NextNodeIsOldest ==
    [][last'.op = "GetNextNode" =>
          /\ nodes' = nodes
          /\ items' = items
          /\ (last'.err = "ErrNoRows" => DOMAIN nodes = {})
          /\ (DOMAIN nodes = {} => last'.err \in {"ErrNoRows", "query"})
          /\ (last'.err = "none" =>
                 /\ last'.ret[1].ID \in DOMAIN nodes
                 /\ last'.ret[1].LastCrawled = nodes[last'.ret[1].ID].lastUpdated[1]
                 /\ \A o \in DOMAIN nodes :
                        ~(nodes[o].lastUpdated[1] < last'.ret[1].LastCrawled))]_vars

\* C2's case: GetNextNode answered on a table of two rows of different age.
C2_Witness ==
    /\ Ok(last, "GetNextNode")
    /\ DOMAIN nodes = NodeIDs
    /\ \E a, b \in NodeIDs : nodes[a].lastUpdated[1] < nodes[b].lastUpdated[1]

\* C3: AddUninitializedNodes leaves every row that exists untouched, in
\* lastUpdated and in every other column, and removes none.
C3_EnqueueKeepsKnownRows ==
    [][last'.op = "AddUninitializedNodes" =>
          \A id \in DOMAIN nodes :
              id \in DOMAIN nodes' /\ nodes'[id] = nodes[id]]_vars

\* C3's case: a committed batch named a node that had been saved before.
C3_Witness ==
    /\ Ok(last, "AddUninitializedNodes")
    /\ \E i \in 1..Len(last.batch) :
           /\ last.batch[i].ID \in DOMAIN nodes
           /\ nodes[last.batch[i].ID].lastUpdated[1] > Sentinel
           /\ nodes[last.batch[i].ID].name # Null

\* C4: when GetNextNode returns a node that has been touched or saved, every
\* other node of the table has been touched or saved after it.
C4_RoundRobin ==
    Ok(last, "GetNextNode") /\ InSeq(ord, last.ret[1].ID) =>
        \A o \in DOMAIN nodes \ {last.ret[1].ID} :
            InSeq(ord, o) /\ Pos(ord, o) > Pos(ord, last.ret[1].ID)

\* C5: a row that was only ever enqueued carries the sentinel, a row that was
\* touched or saved carries a later lastUpdated, and while a sentinel row
\* exists GetNextNode returns a never-crawled node.
C5_FrontierOrdering ==
    /\ \A id \in DOMAIN nodes :
           IF InSeq(ord, id)
               THEN nodes[id].lastUpdated[1] > Sentinel
               ELSE nodes[id].lastUpdated[1] = Sentinel
    /\ (Ok(last, "GetNextNode")
            /\ (\E o \in DOMAIN nodes : nodes[o].lastUpdated[1] = Sentinel))
          => /\ last.ret[1].LastCrawled = Sentinel
             /\ ~InSeq(ord, last.ret[1].ID)

\* C5's case: GetNextNode answered while one node was crawled and the other
\* was not.
C5_Witness ==
    /\ Ok(last, "GetNextNode")
    /\ DOMAIN nodes = NodeIDs
    /\ \E a, b \in NodeIDs : InSeq(ord, a) /\ ~InSeq(ord, b) /\ last.ret[1].ID = b

\* C6: a write method that returns an error leaves both tables as they were.
C6_FailureAtomicity ==
    [][(last'.op \in {"AddUninitializedNodes", "SaveNode", "SaveNodeUninitialized",
                      "AddItemsForNode"}
            /\ last'.err # "none")
          => nodes' = nodes /\ items' = items]_vars

\* C6's case: AddItemsForNode failed at an Exec of its loop, for a batch of
\* two items and an owner that has items stored.
C6_Witness ==
    /\ last.op = "AddItemsForNode"
    /\ last.err = "exec"
    /\ Len(last.batch) = 2
    /\ last.batch[1].Hash # last.batch[2].Hash
    /\ \E h \in DOMAIN items : items[h].owner = Val(last.node.ID)

\* C7: GetNode right after a committed SaveNode of the same ID returns the
\* profile fields that were saved.
C7_SaveGetRoundTrip ==
    [][(Ok(last, "SaveNode") /\ Ok(last', "GetNode")
            /\ last'.node.ID = last.node.ID)
          => SameProfileFields(last'.ret[1].Profile, last.node.Profile)]_vars

\* C8, as claimed: after a committed SaveNode the row exists, its lastUpdated
\* is the current time and every profile field of the data model, listed and
\* banned included, holds the value supplied.
C8_EveryFieldWritten ==
    Ok(last, "SaveNode") =>
        /\ last.node.ID \in DOMAIN nodes
        /\ nodes[last.node.ID].lastUpdated = Val(clock)
        /\ HoldsProfile(nodes[last.node.ID], last.node.Profile)
        /\ nodes[last.node.ID].listed = Val(Tiny(last.node.Profile.Listed))
        /\ nodes[last.node.ID].banned = Val(Tiny(last.node.Profile.Banned))

\* C8, amended: after a committed SaveNode the row exists, its lastUpdated is
\* the current time and the fourteen columns the statement names hold the
\* values supplied, whatever the row held; listed and banned are not written:
\* they keep the row's values, and are 0 on a new row.  No other row changes.
C8_SaveNodeOverwrites ==
    [][Ok(last', "SaveNode") =>
          /\ DOMAIN nodes' = DOMAIN nodes \cup {last'.node.ID}
          /\ nodes'[last'.node.ID].lastUpdated = Val(clock)
          /\ HoldsProfile(nodes'[last'.node.ID], last'.node.Profile)
          /\ nodes'[last'.node.ID].listed =
                 (IF last'.node.ID \in DOMAIN nodes
                      THEN nodes[last'.node.ID].listed ELSE Val(0))
          /\ nodes'[last'.node.ID].banned =
                 (IF last'.node.ID \in DOMAIN nodes
                      THEN nodes[last'.node.ID].banned ELSE Val(0))
          /\ \A o \in DOMAIN nodes \ {last'.node.ID} : nodes'[o] = nodes[o]]_vars

\* C8's case: a committed SaveNode of ProfileY, after the clock has moved,
\* while the other node's row holds ProfileX.
C8_Witness ==
    /\ Ok(last, "SaveNode")
    /\ last.node.Profile = ProfileY
    /\ clock > Sentinel + 1
    /\ nodes[last.node.ID].lastUpdated = Val(clock)
    /\ \E o \in DOMAIN nodes \ {last.node.ID} : nodes[o].name = Val("X")

\* C9: a committed SaveNodeUninitialized sets the row's lastUpdated to the
\* current time and keeps its other columns; without a row it inserts one
\* with NULL profile columns; no other node row and no item row changes.
C9_TouchOnlyTimestamp ==
    [][Ok(last', "SaveNodeUninitialized") =>
          /\ DOMAIN nodes' = DOMAIN nodes \cup {last'.node.ID}
          /\ nodes'[last'.node.ID].lastUpdated = Val(clock)
          /\ (last'.node.ID \in DOMAIN nodes =>
                 nodes'[last'.node.ID] =
                     [nodes[last'.node.ID] EXCEPT !.lastUpdated = Val(clock)])
          /\ (last'.node.ID \notin DOMAIN nodes =>
                 nodes'[last'.node.ID] = UninitRow(clock))
          /\ \A o \in DOMAIN nodes \ {last'.node.ID} : nodes'[o] = nodes[o]
          /\ items' = items]_vars

\* C9's case: a committed touch of a node whose profile had been saved, with
\* another node in the table.
C9_Witness ==
    /\ Ok(last, "SaveNodeUninitialized")
    /\ DOMAIN nodes = NodeIDs
    /\ nodes[last.node.ID].name # Null
    /\ nodes[last.node.ID].lastUpdated = Val(clock)

\* C10: GetNextNode takes no claim on the row it returns: right after a
\* worker got a node, that node is still one GetNextNode may return, so the
\* other worker can be handed the same node.
C10_SelectionTakesNoLease ==
    [][\A w \in Workers :
          (wpc[w] = "idle" /\ wpc'[w] = "crawl") =>
              /\ nodes' = nodes
              /\ got'[w][1].ID \in FirstByLastUpdated(nodes')]_vars

\* C10's case: both workers hold the same node, neither has written its
\* timestamp yet, and another node was there to be chosen.
C10_Witness ==
    /\ wpc["w1"] = "crawl" /\ wpc["w2"] = "crawl"
    /\ got["w1"][1].ID = got["w2"][1].ID
    /\ DOMAIN nodes = NodeIDs
    /\ nodes[got["w1"][1].ID].lastUpdated[1] = got["w1"][1].LastCrawled
    /\ nodes[got["w2"][1].ID].lastUpdated[1] = got["w2"][1].LastCrawled

\* C11: no method removes a node row; every row of the table has a
\* lastUpdated that is not NULL; and a committed AddUninitializedNodes,
\* SaveNodeUninitialized or SaveNode leaves a row for every ID it was given.
\* Together: an ID once given to a committed call has a row ever after.
C11_NodePersistence ==
    [][/\ \A id \in DOMAIN nodes : id \in DOMAIN nodes'
       /\ \A id \in DOMAIN nodes' : nodes'[id].lastUpdated # Null
       /\ (Ok(last', "AddUninitializedNodes") =>
              \A i \in 1..Len(last'.batch) : last'.batch[i].ID \in DOMAIN nodes')
       /\ ((Ok(last', "SaveNodeUninitialized") \/ Ok(last', "SaveNode")) =>
              last'.node.ID \in DOMAIN nodes')]_vars

\* C11's case: a committed touch has just made a row for its ID, beside a
\* row that an enqueue made and nothing has written since.
C11_Witness ==
    /\ Ok(last, "SaveNodeUninitialized")
    /\ DOMAIN nodes = NodeIDs
    /\ nodes[last.node.ID] = UninitRow(clock)
    /\ \E o \in NodeIDs \ {last.node.ID} : nodes[o] = UninitRow(Sentinel)

\* C12: every item row's owner is the id of a row of table nodes.
C12_OwnerIsKnownNode ==
    \A h \in DOMAIN items :
        items[h].owner # Null /\ items[h].owner[1] \in DOMAIN nodes

\* C13: a committed AddItemsForNode with an empty batch leaves no item row
\* with that owner, and leaves every row of another owner as it was, adding
\* none.
C13_EmptyBatchClears ==
    [][(Ok(last', "AddItemsForNode") /\ last'.batch = <<>>) =>
          /\ DOMAIN RowsOf(items', last'.node.ID) = {}
          /\ DOMAIN items' = {h \in DOMAIN items : items[h].owner # Val(last'.node.ID)}
          /\ \A h \in DOMAIN items' : items'[h] = items[h]]_vars

\* C13's case: an empty batch was committed for an owner while the table
\* holds a row of the other owner.
C13_Witness ==
    /\ Ok(last, "AddItemsForNode")
    /\ last.batch = <<>>
    /\ \E h \in DOMAIN items : items[h].owner # Val(last.node.ID)

\* C14: when a committed AddItemsForNode names a hash whose row belongs to
\* another owner, the row keeps that owner and every other column holds the
\* value of the batch's (last) item of that hash.  That the hash names one
\* row is the table's primary key: items is a function of the hash.
C14_UpsertKeepsOwner ==
    [][Ok(last', "AddItemsForNode") =>
          \A i \in 1..Len(last'.batch) :
              LET h == last'.batch[i].Hash
                  a == last'.node.ID
              IN  (h \in DOMAIN items /\ items[h].owner # Val(a)) =>
                      /\ h \in DOMAIN items'
                      /\ items'[h] =
                             [Reported(a, last'.batch, Len(last'.batch))[h]
                                 EXCEPT !.owner = items[h].owner]]_vars

\* C14's case: after a committed call of one owner, a hash of its batch is
\* a row of the other owner, holding the content the batch gave.
C14_Witness ==
    /\ Ok(last, "AddItemsForNode")
    /\ \E i \in 1..Len(last.batch) :
           /\ last.batch[i] = ItemTwo("h1")
           /\ items["h1"].owner # Val(last.node.ID)
           /\ items["h1"].slug = Val("slug-2")
           /\ items["h1"].categories = Val(<<"a", ",", "b">>)

\* C16: after a committed AddItemsForNode, for every item of the batch (the
\* last one of its hash), splitting the stored categories on commas gives
\* the list of categories that was passed.
C16_CategoriesRoundTrip ==
    Ok(last, "AddItemsForNode") =>
        \A i \in 1..Len(last.batch) :
            (\A j \in (i + 1)..Len(last.batch) : last.batch[j].Hash # last.batch[i].Hash)
                => /\ last.batch[i].Hash \in DOMAIN items
                   /\ Split(items[last.batch[i].Hash].categories[1], ",")
                          = last.batch[i].Categories

C17_TransactionClosedOnReturn ==
    last.op \in {"SaveNodeUninitialized", "SaveNode", "AddUninitializedNodes",
                 "AddItemsForNode"}
        => last.tx \in {"none", "committed", "rolled back"}

\* GetNextNode has just handed node n to the caller.
Returned(n) == Ok(last, "GetNextNode") /\ last.ret[1].ID = n

C18_NoBlend ==
    (\A w \in Workers : wpc[w] = "done" /\ got[w][1].err = "none") =>
        \E w \in Workers :
            RowsOf(items, ReplaceOwner) =
                Reported(ReplaceOwner, got[w][1].batch, Len(got[w][1].batch))

====
